---- MODULE Spec2Model ----
(***************************************************************************)
(* Model of the interactive star map of space-map-explorer                 *)
(* (src/starMap.js, class StarMap and the window.starMap bootstrap).       *)
(*                                                                         *)
(* Number representation.  JavaScript numbers are modelled as exact        *)
(* values; IEEE-754 rounding is not modelled.                              *)
(*   - zoom, panX, panY and screen coordinates are exact rationals         *)
(*     <<n, d>> in lowest terms with d > 0;                                *)
(*   - right ascension is held in hundredths of an hour, declination in    *)
(*     hundredths of a degree, magnitude in hundredths;                    *)
(*   - Math.sin / Math.cos return thousandths (three decimals), from a     *)
(*     one-degree table with linear interpolation;                         *)
(*   - names are tuples of one-character strings, so that                  *)
(*     String.prototype.startsWith is computed and not assumed.            *)
(*                                                                         *)
(* Not modelled: the 2D drawing calls of render() other than which lines   *)
(* and markers it draws (the state a render pass reads is kept in frame),  *)
(* and the text of the toggle button.                                      *)
(*                                                                         *)
(* Specifications: Spec (every handler, varied inputs, bounded sessions),  *)
(* ZoomSpec (every handler, unbounded sessions, every zoom factor up to    *)
(* a bounded denominator), CatalogSpec (construction over the catalogs     *)
(* that the random draws produce) and FrameSpec (every handler, short      *)
(* sessions in which each event records the state it found).               *)
(***************************************************************************)
EXTENDS Integers, Sequences, FiniteSets

(***************************************************************************)
(* Bounds of the exploration.                                              *)
(***************************************************************************)
\* number of synthetic background stars generated (200 in the page)
NumBackground == 2
\* largest denominator of a zoom factor that is explored
MaxZoomDen == 3125
\* number of input events explored in one session of the full view machine
MaxEvents == 4
\* number of input events explored in one session with a recorded history
MaxFrameEvents == 2
\* largest denominator of a zoom factor in a session with a recorded history
MaxFrameDen == 10
\* the number of input events of a session of DragSpec
MaxDragEvents == 5
\* the number of searches of a session of SearchSpec that issue requests
MaxSearches == 2
\* timer handles are kept modulo TimerCycle
TimerCycle == 2

(***************************************************************************)
(* Exact rational arithmetic.                                              *)
(***************************************************************************)
Abs(n) == IF n < 0 THEN -n ELSE n

RECURSIVE GCD(_, _)
GCD(a, b) == IF b = 0 THEN a ELSE GCD(b, a % b)

Rat(n, d) ==
    LET g == GCD(Abs(n), Abs(d))
        s == IF d < 0 THEN -1 ELSE 1
    IN  <<s * (n \div g), s * (d \div g)>>

R(n) == <<n, 1>>
Num(q) == q[1]
Den(q) == q[2]

RAdd(p, q) ==
    LET g == GCD(Den(p), Den(q))
    IN  Rat(Num(p) * (Den(q) \div g) + Num(q) * (Den(p) \div g),
            (Den(p) \div g) * Den(q))

RNeg(p) == <<-Num(p), Den(p)>>

RSub(p, q) == RAdd(p, RNeg(q))

RMul(p, q) ==
    LET a == Rat(Num(p), Den(q))
        b == Rat(Num(q), Den(p))
    IN  <<Num(a) * Num(b), Den(a) * Den(b)>>

RDiv(p, q) == RMul(p, Rat(Den(q), Num(q)))

RLt(p, q) == Num(RSub(p, q)) < 0

RLe(p, q) == Num(RSub(p, q)) <= 0

\* Math.max, Math.min
RMax(p, q) == IF RLt(p, q) THEN q ELSE p
RMin(p, q) == IF RLt(q, p) THEN q ELSE p

(***************************************************************************)
(* Math.cos and Math.sin, in thousandths, of an angle in thousandths of a  *)
(* degree (the code converts degrees to radians with * Math.PI / 180).     *)
(***************************************************************************)
CosTable ==
    <<1000, 1000, 999, 999, 998, 996, 995, 993, 990, 988,
      985, 982, 978, 974, 970, 966, 961, 956, 951, 946,
      940, 934, 927, 921, 914, 906, 899, 891, 883, 875,
      866, 857, 848, 839, 829, 819, 809, 799, 788, 777,
      766, 755, 743, 731, 719, 707, 695, 682, 669, 656,
      643, 629, 616, 602, 588, 574, 559, 545, 530, 515,
      500, 485, 469, 454, 438, 423, 407, 391, 375, 358,
      342, 326, 309, 292, 276, 259, 242, 225, 208, 191,
      174, 156, 139, 122, 105, 87, 70, 52, 35, 17, 0>>

\* cosine of an angle of the first quadrant, 0 <= a <= 90000
CosQ1(a) ==
    LET d == a \div 1000
        f == a % 1000
    IN  IF f = 0 THEN CosTable[d + 1]
        ELSE (2 * (CosTable[d + 1] * (1000 - f) + CosTable[d + 2] * f) + 1000)
                 \div 2000

Cos(md) ==
    LET a == md % 360000
        b == IF a > 180000 THEN 360000 - a ELSE a
    IN  IF b > 90000 THEN -CosQ1(180000 - b) ELSE CosQ1(b)

Sin(md) == Cos(md - 90000)

\* the value Math.acos(v) * 180 / Math.PI for v in units of 10^-9: <<d>>
\* with d the angle rounded down to whole degrees, or NaN when v > 1, where
\* Math.acos returns NaN
NaN == <<>>

\* the largest whole number of degrees d in lo..(hi - 1) with cos(d) >= v,
\* by bisection (the cosine decreases from 0 to 180 degrees)
RECURSIVE AcosBetween(_, _, _)
AcosBetween(v, lo, hi) ==
    IF hi = lo + 1 THEN lo
    ELSE LET mid == (lo + hi) \div 2
         IN  IF Cos(mid * 1000) * 1000000 >= v
             THEN AcosBetween(v, mid, hi)
             ELSE AcosBetween(v, lo, mid)

AcosDeg(v) ==
    IF v > 1000000000 THEN NaN ELSE <<AcosBetween(v, 0, 181)>>

(***************************************************************************)
(* Strings.                                                                *)
(***************************************************************************)
\* String.prototype.startsWith
StartsWith(s, p) == Len(s) >= Len(p) /\ SubSeq(s, 1, Len(p)) = p

StarPrefix == <<"S", "t", "a", "r", "_">>

Digits == <<"0", "1", "2", "3", "4", "5", "6", "7", "8", "9">>

\* the decimal text of i, as the template literal `Star_${i}` prints it
RECURSIVE DecimalText(_)
DecimalText(i) ==
    IF i < 10 THEN <<Digits[i + 1]>>
    ELSE DecimalText(i \div 10) \o <<Digits[(i % 10) + 1]>>

(***************************************************************************)
(* The star catalog.  A star is [name, ra, dec, mag] with ra in hundredths *)
(* of an hour, dec in hundredths of a degree, mag in hundredths.           *)
(***************************************************************************)
NamedStars ==
    <<
      [name |-> <<"S", "i", "r", "i", "u", "s">>,
       ra |-> 675, dec |-> -1670, mag |-> -146],
      [name |-> <<"C", "a", "n", "o", "p", "u", "s">>,
       ra |-> 640, dec |-> -5270, mag |-> -74],
      [name |-> <<"A", "r", "c", "t", "u", "r", "u", "s">>,
       ra |-> 1426, dec |-> 1920, mag |-> -5],
      [name |-> <<"V", "e", "g", "a">>,
       ra |-> 1862, dec |-> 3880, mag |-> 3],
      [name |-> <<"C", "a", "p", "e", "l", "l", "a">>,
       ra |-> 528, dec |-> 4598, mag |-> 8],
      [name |-> <<"R", "i", "g", "e", "l">>,
       ra |-> 524, dec |-> -820, mag |-> 18],
      [name |-> <<"P", "r", "o", "c", "y", "o", "n">>,
       ra |-> 766, dec |-> 520, mag |-> 34],
      [name |-> <<"B", "e", "t", "e", "l", "g", "e", "u", "s", "e">>,
       ra |-> 592, dec |-> 740, mag |-> 42],
      [name |-> <<"A", "c", "h", "e", "r", "n", "a", "r">>,
       ra |-> 163, dec |-> -5720, mag |-> 46],
      [name |-> <<"A", "l", "t", "a", "i", "r">>,
       ra |-> 1985, dec |-> 887, mag |-> 76],
      [name |-> <<"S", "p", "i", "c", "a">>,
       ra |-> 1342, dec |-> -1116, mag |-> 98],
      [name |-> <<"P", "o", "l", "l", "u", "x">>,
       ra |-> 776, dec |-> 2800, mag |-> 116],
      [name |-> <<"F", "o", "m", "a", "l", "h", "a", "u", "t">>,
       ra |-> 2296, dec |-> -2960, mag |-> 117],
      [name |-> <<"D", "e", "n", "e", "b">>,
       ra |-> 2069, dec |-> 4528, mag |-> 125],
      [name |-> <<"R", "e", "g", "u", "l", "u", "s">>,
       ra |-> 1014, dec |-> 1197, mag |-> 136]
    >>

\* generateRandomStars(count, minMag, maxMag): rnd is the sequence of the
\* values Math.random() returns, in hundredths, three draws per star
RECURSIVE generateRandomStars(_, _, _, _)
generateRandomStars(count, minMag, maxMag, rnd) ==
    IF count = 0 THEN <<>>
    ELSE LET i == count - 1
         IN  Append(generateRandomStars(i, minMag, maxMag, rnd),
                    [name |-> StarPrefix \o DecimalText(i),
                     ra   |-> rnd[3 * i + 1] * 24,
                     dec  |-> (rnd[3 * i + 2] - 50) * 180,
                     mag  |-> minMag + (rnd[3 * i + 3] * (maxMag - minMag)) \div 100])

generateStarCatalog(rnd) ==
    NamedStars \o generateRandomStars(NumBackground, 50, 400, rnd)

\* the filter without its test of the name prefix
IsBrightStarAnyName(s) == s.mag < 200 /\ s.name # <<>>

\* s => s.mag < 2.0 && s.name && !s.name.startsWith('Star_')
IsBrightStar(s) == s.mag < 200 /\ s.name # <<>> /\ ~StartsWith(s.name, StarPrefix)

\* Array.prototype.filter
Filter(seq, Keep(_)) == SelectSeq(seq, Keep)

\* the angular distance of two stars in degrees, by the spherical law of
\* cosines
AngularDist(s1, s2) ==
    LET ra1  == s1.ra * 150
        dec1 == s1.dec * 10
        ra2  == s2.ra * 150
        dec2 == s2.dec * 10
    IN  AcosDeg(Sin(dec1) * Sin(dec2) * 1000
                + Cos(dec1) * Cos(dec2) * Cos(ra1 - ra2))

\* if (angularDist < 30): a comparison with NaN is false
WithinLimit(angularDist) == angularDist # NaN /\ angularDist[1] < 30

\* an inner loop that starts at the first star for every i
InnerStartAtFirst(i) == 1

\* first value of the inner loop index j for the outer index i
InnerStart(i) == i + 1

\* the inner loop, for (let j = i + 1; j < brightStars.length; j++), from j on
RECURSIVE InnerLoop(_, _, _)
InnerLoop(brightStars, i, j) ==
    IF j > Len(brightStars) THEN <<>>
    ELSE LET s1 == brightStars[i]
             s2 == brightStars[j]
         IN  (IF WithinLimit(AngularDist(s1, s2))
              THEN <<[star1 |-> s1, star2 |-> s2]>>
              ELSE <<>>) \o InnerLoop(brightStars, i, j + 1)

\* the outer loop, for (let i = 0; i < brightStars.length; i++), from i on
RECURSIVE OuterLoop(_, _)
OuterLoop(brightStars, i) ==
    IF i > Len(brightStars) THEN <<>>
    ELSE InnerLoop(brightStars, i, InnerStart(i)) \o OuterLoop(brightStars, i + 1)

generateConstellationLines(catalog) ==
    LET brightStars == Filter(catalog, IsBrightStar)
    IN  OuterLoop(brightStars, 1)

(***************************************************************************)
(* State.  The fields of the StarMap instance, the canvas element it       *)
(* draws on, and the module-level binding that holds the instance.         *)
(***************************************************************************)
VARIABLES
    starMap,             \* the binding `let starMap`: Undefined or "StarMap"
    zoom, panX, panY, showConstellations,      \* view state
    isDragging, lastMouseX, lastMouseY,        \* interaction state
    stars, plottedObjects, constellations,
    canvasWidth, canvasHeight, cursor,         \* canvas.width/height/style.cursor
    frame,               \* the state drawn by the latest render()
    renders,             \* the number of render() calls of the latest handler
    lastCall,            \* the latest handler or operation and its arguments
    events,              \* the number of input events dispatched so far
    before,              \* the call and the fields ahead of the latest event
    gesture,             \* the latest drag gesture, if the pan is still its own
    windowStarMap,       \* window.starMap
    searchListening,     \* the listeners of the search controls are attached
    timers,              \* the pending setTimeout callbacks, oldest first
    nextTimer,           \* the handle the next setTimeout call returns
    inFlight,            \* the searches that await their data sources
    submitted,           \* the number of searches that issued requests
    errorText, errorHidden,   \* #errorMessage: textContent, class hidden
    loadingHidden,       \* #loadingIndicator: class hidden
    resultsContainer     \* the children of #resultsContainer, in order

vars == <<starMap, zoom, panX, panY, showConstellations,
          isDragging, lastMouseX, lastMouseY,
          stars, plottedObjects, constellations,
          canvasWidth, canvasHeight, cursor, frame, renders, lastCall,
          events, before, gesture,
          windowStarMap, searchListening, timers, nextTimer, inFlight,
          submitted, errorText, errorHidden, loadingHidden, resultsContainer>>

\* the state of the search page around the map
pageVars == <<windowStarMap, searchListening, timers, nextTimer, inFlight,
              submitted,
              errorText, errorHidden, loadingHidden, resultsContainer>>

\* the fields of the StarMap instance and of its canvas
viewFields == <<starMap, zoom, panX, panY, showConstellations, isDragging,
                lastMouseX, lastMouseY, stars, plottedObjects,
                constellations, canvasWidth, canvasHeight, cursor>>

\* what the view handlers leave alone: the histories and the search page
aside == <<events, before, gesture, pageVars>>

Undefined == "undefined"

\* everything a render pass reads besides the catalog and the graph
Viewport ==
    [zoom |-> zoom, panX |-> panX, panY |-> panY,
     showConstellations |-> showConstellations,
     plottedObjects |-> plottedObjects,
     width |-> canvasWidth, height |-> canvasHeight]

\* render(): draws the current state; it assigns no field
render == frame' = Viewport' /\ renders' = 1

\* a handler that returns without calling render()
NoRender == frame' = frame /\ renders' = 0

\* the handler that is running, as recorded in lastCall
Call(op, args) == lastCall' = [op |-> op, args |-> args]

\* before DOMContentLoaded no instance exists
Init ==
    /\ starMap = Undefined
    /\ zoom = Undefined /\ panX = Undefined /\ panY = Undefined
    /\ showConstellations = Undefined
    /\ isDragging = Undefined /\ lastMouseX = Undefined /\ lastMouseY = Undefined
    /\ stars = Undefined /\ plottedObjects = Undefined
    /\ constellations = Undefined
    /\ canvasWidth = Undefined /\ canvasHeight = Undefined /\ cursor = Undefined
    /\ frame = Undefined
    /\ renders = 0
    /\ lastCall = [op |-> "none", args |-> <<>>]
    /\ events = 0
    /\ before = [call |-> lastCall, fields |-> Undefined, points |-> Undefined]
    /\ gesture = <<>>
    /\ windowStarMap = Undefined    \* window.starMap = starMap, at load
    /\ searchListening = FALSE
    /\ timers = <<>>
    /\ nextTimer = 1
    /\ inFlight = {}
    /\ submitted = 0
    /\ errorText = "" /\ errorHidden = TRUE
    /\ loadingHidden = TRUE
    /\ resultsContainer = <<>>

\* the listeners exist once the constructor has run setupEventListeners
Constructed == starMap # Undefined

(***************************************************************************)
(* Projection.                                                             *)
(***************************************************************************)
\* the term with the factor 0.5 in place of 0.4
OffsetHalf(trig, cosDec) ==
    RMul(RMul(RMul(Rat(trig * cosDec, 1000000), R(canvasWidth)), zoom),
         Rat(1, 2))

\* the stereographic term  trig * cosDec * canvas.width * zoom * 0.4
\* with trig and cosDec in thousandths
Offset(trig, cosDec) ==
    RMul(RMul(RMul(Rat(trig * cosDec, 1000000), R(canvasWidth)), zoom),
         Rat(2, 5))

\* a projection that also reads the pointer position of the latest drag
raDecToCanvasDragged(ra, dec) ==
    LET raRad   == ra * 150 - 180000
        cosDec  == Cos(dec * 10)
    IN  [x |-> RAdd(RAdd(Rat(canvasWidth, 2), RAdd(panX, R(lastMouseX))),
                    Offset(Sin(raRad), cosDec)),
         y |-> RSub(RAdd(Rat(canvasHeight, 2), RAdd(panY, R(lastMouseY))),
                    Offset(Cos(raRad), cosDec))]

raDecToCanvas(ra, dec) ==
    LET centerX == Rat(canvasWidth, 2)
        centerY == Rat(canvasHeight, 2)
        raRad   == ra * 150 - 180000
        decRad  == dec * 10
        cosDec  == Cos(decRad)
    IN  [x |-> RAdd(RAdd(centerX, panX), Offset(Sin(raRad), cosDec)),
         y |-> RSub(RAdd(centerY, panY), Offset(Cos(raRad), cosDec))]

(***************************************************************************)
(* Culling, and what a render pass draws from the current state.           *)
(***************************************************************************)
\* the test with the four bounds included
isPointVisibleInclusive(pos) ==
    /\ RLe(R(-50), pos.x) /\ RLe(pos.x, R(canvasWidth + 50))
    /\ RLe(R(-50), pos.y) /\ RLe(pos.y, R(canvasHeight + 50))

\* pos.x > -50 && pos.x < this.canvas.width + 50 &&
\* pos.y > -50 && pos.y < this.canvas.height + 50
isPointVisible(pos) ==
    /\ RLt(R(-50), pos.x) /\ RLt(pos.x, R(canvasWidth + 50))
    /\ RLt(R(-50), pos.y) /\ RLt(pos.y, R(canvasHeight + 50))

\* a test that asks for both end points, as the comment above it says
BothVisible(pos1, pos2) == isPointVisible(pos1) /\ isPointVisible(pos2)

\* if (this.isPointVisible(pos1) || this.isPointVisible(pos2))
EitherVisible(pos1, pos2) == isPointVisible(pos1) \/ isPointVisible(pos2)

\* the body of this.constellations.forEach: is the line stroked
LineDrawn(line) ==
    LET pos1 == raDecToCanvas(line.star1.ra, line.star1.dec)
        pos2 == raDecToCanvas(line.star2.ra, line.star2.dec)
    IN  EitherVisible(pos1, pos2)

\* the lines a render pass strokes, in the order it strokes them
DrawnLines ==
    IF showConstellations THEN Filter(constellations, LineDrawn) ELSE <<>>

\* the body of this.plottedObjects.forEach: is the marker drawn
ObjectDrawn(obj) == isPointVisible(raDecToCanvas(obj.ra, obj.dec))

\* the markers a render pass draws, in the order it draws them
DrawnObjects == Filter(plottedObjects, ObjectDrawn)

\* the body of this.stars.forEach up to "if (!this.isPointVisible(pos)) return"
StarDrawn(star) == isPointVisible(raDecToCanvas(star.ra, star.dec))

\* star.mag < 1.5 && star.name && !star.name.startsWith('Star_')
Labelled(star) ==
    star.mag < 150 /\ star.name # <<>> /\ ~StartsWith(star.name, StarPrefix)

\* what this.stars.forEach draws for the first n stars: the disc of each
\* visible star, followed at once by its label when it has one
RECURSIVE StarDraws(_)
StarDraws(n) ==
    IF n = 0 THEN <<>>
    ELSE LET star == stars[n]
         IN  StarDraws(n - 1) \o
             (IF ~StarDrawn(star) THEN <<>>
              ELSE <<[op |-> "star", of |-> star]>> \o
                   (IF Labelled(star)
                    THEN <<[op |-> "label", of |-> star]>>
                    ELSE <<>>))

\* the strokes of the constellation pass
LineDraws == [k \in 1..Len(DrawnLines) |-> [op |-> "line", of |-> DrawnLines[k]]]

\* the markers of the plotted objects (disc, crosshair and label of each)
ObjectDraws ==
    [k \in 1..Len(DrawnObjects) |-> [op |-> "marker", of |-> DrawnObjects[k]]]

\* a pass that draws the markers under the stars
DrawListMarkersFirst ==
    <<[op |-> "background", of |-> <<canvasWidth, canvasHeight>>]>>
        \o LineDraws \o ObjectDraws \o StarDraws(Len(stars))

\* render(): the drawing calls of one pass, in the order it issues them
DrawList ==
    <<[op |-> "background", of |-> <<canvasWidth, canvasHeight>>]>>
        \o LineDraws \o StarDraws(Len(stars)) \o ObjectDraws

(***************************************************************************)
(* The search page: text helpers, the static tables, and what each data    *)
(* source returns.  A query is a tuple of characters; a result is          *)
(* [name, type, source, coordinates] with coordinates <<ra, dec>> in       *)
(* hundredths, or <<>> when the result carries none (null or no such       *)
(* property).  A value that may be null is <<>> or <<value>>.              *)
(***************************************************************************)
Upper ==
    <<"A", "B", "C", "D", "E", "F", "G", "H", "I", "J", "K", "L", "M", "N", "O", "P", "Q", "R", "S", "T", "U", "V", "W", "X", "Y", "Z">>

Lower ==
    <<"a", "b", "c", "d", "e", "f", "g", "h", "i", "j", "k", "l", "m", "n", "o", "p", "q", "r", "s", "t", "u", "v", "w", "x", "y", "z">>

LetterIndex(alphabet, c) == CHOOSE k \in 1..Len(alphabet) : alphabet[k] = c

\* String.prototype.toLowerCase
toLowerCase(s) ==
    [i \in 1..Len(s) |->
        IF \E k \in 1..Len(Upper) : Upper[k] = s[i]
        THEN Lower[LetterIndex(Upper, s[i])] ELSE s[i]]

\* String.prototype.toUpperCase
toUpperCase(s) ==
    [i \in 1..Len(s) |->
        IF \E k \in 1..Len(Lower) : Lower[k] = s[i]
        THEN Upper[LetterIndex(Lower, s[i])] ELSE s[i]]

WhiteSpace == {" ", "\t", "\n"}

RECURSIVE trimStart(_)
trimStart(s) ==
    IF s # <<>> /\ Head(s) \in WhiteSpace THEN trimStart(Tail(s)) ELSE s

RECURSIVE trimEnd(_)
trimEnd(s) ==
    IF s # <<>> /\ s[Len(s)] \in WhiteSpace
    THEN trimEnd(SubSeq(s, 1, Len(s) - 1)) ELSE s

\* a trim that returns the text as typed
trimNothing(s) == s

\* String.prototype.trim
trim(s) == trimEnd(trimStart(s))

\* query.charAt(0).toUpperCase() + query.slice(1)
Capitalized(query) ==
    IF query = <<>> THEN <<>>
    ELSE toUpperCase(<<Head(query)>>) \o Tail(query)

\* the keys and values of KNOWN_STAR_COORDINATES
KNOWN_STAR_COORDINATES ==
    {
      [name |-> <<"s", "i", "r", "i", "u", "s">>,
       ra |-> 675, dec |-> -1670],
      [name |-> <<"b", "e", "t", "e", "l", "g", "e", "u", "s", "e">>,
       ra |-> 592, dec |-> 740],
      [name |-> <<"v", "e", "g", "a">>,
       ra |-> 1862, dec |-> 3880],
      [name |-> <<"a", "r", "c", "t", "u", "r", "u", "s">>,
       ra |-> 1426, dec |-> 1920],
      [name |-> <<"r", "i", "g", "e", "l">>,
       ra |-> 524, dec |-> -820],
      [name |-> <<"p", "r", "o", "c", "y", "o", "n">>,
       ra |-> 766, dec |-> 520],
      [name |-> <<"c", "a", "p", "e", "l", "l", "a">>,
       ra |-> 528, dec |-> 4598],
      [name |-> <<"a", "l", "t", "a", "i", "r">>,
       ra |-> 1985, dec |-> 887],
      [name |-> <<"s", "p", "i", "c", "a">>,
       ra |-> 1342, dec |-> -1116],
      [name |-> <<"p", "o", "l", "l", "u", "x">>,
       ra |-> 776, dec |-> 2800],
      [name |-> <<"f", "o", "m", "a", "l", "h", "a", "u", "t">>,
       ra |-> 2296, dec |-> -2960],
      [name |-> <<"d", "e", "n", "e", "b">>,
       ra |-> 2069, dec |-> 4528],
      [name |-> <<"r", "e", "g", "u", "l", "u", "s">>,
       ra |-> 1014, dec |-> 1197],
      [name |-> <<"p", "o", "l", "a", "r", "i", "s">>,
       ra |-> 252, dec |-> 8926],
      [name |-> <<"a", "n", "t", "a", "r", "e", "s">>,
       ra |-> 1649, dec |-> -2643],
      [name |-> <<"a", "l", "d", "e", "b", "a", "r", "a", "n">>,
       ra |-> 460, dec |-> 1651],
      [name |-> <<"m", "i", "r", "a">>,
       ra |-> 219, dec |-> -298],
      [name |-> <<"c", "a", "s", "t", "o", "r">>,
       ra |-> 757, dec |-> 3179]
    }

IsKnownStar(key) == \E e \in KNOWN_STAR_COORDINATES : e.name = key

\* KNOWN_STAR_COORDINATES[key], for a key of the table
KnownStar(key) ==
    LET e == CHOOSE e \in KNOWN_STAR_COORDINATES : e.name = key
    IN  <<e.ra, e.dec>>

\* the keys of commonObjects
commonObjects ==
    {
      <<"m", "a", "r", "s">>,
      <<"j", "u", "p", "i", "t", "e", "r">>,
      <<"s", "a", "t", "u", "r", "n">>,
      <<"n", "e", "p", "t", "u", "n", "e">>,
      <<"v", "e", "n", "u", "s">>,
      <<"m", "e", "r", "c", "u", "r", "y">>,
      <<"u", "r", "a", "n", "u", "s">>
    }

\* createFallbackResult(query): the later of the two declarations, which
\* is the one in effect
createFallbackResult(query) ==
    LET lowerQuery == toLowerCase(query)
    IN  IF lowerQuery \in commonObjects
        THEN <<[name |-> Capitalized(query), type |-> "Planet",
                source |-> "Solar System Database", coordinates |-> <<>>]>>
        ELSE IF IsKnownStar(lowerQuery)
        THEN <<[name |-> Capitalized(query), type |-> "Star",
                source |-> "Star Catalog",
                coordinates |-> KnownStar(lowerQuery)]>>
        ELSE <<>>

\* the promise an async function returns after its try/catch
Fulfilled(value) == [status |-> "fulfilled", value |-> value]

\* searchSBDB(query): every path but the last returns null, the catch
\* included; the name is obj.name || query with no name in the answer
searchSBDB(query, outcome) ==
    Fulfilled(IF outcome = "found"
              THEN <<[name |-> query, type |-> "Small Body",
                      source |-> "NASA SBDB", coordinates |-> <<>>]>>
              ELSE <<>>)

\* searchNeoWs(query): an object that carries the name searched for
searchNeoWs(query, outcome) ==
    Fulfilled(IF outcome = "found"
              THEN <<[name |-> query, type |-> "Near-Earth Object",
                      source |-> "NASA NeoWs", coordinates |-> <<>>]>>
              ELSE <<>>)

\* searchExoplanet(query): planet.pl_name || query
searchExoplanet(query, outcome) ==
    Fulfilled(IF outcome = "found"
              THEN <<[name |-> query, type |-> "Exoplanet",
                      source |-> "NASA Exoplanet Archive",
                      coordinates |-> <<>>]>>
              ELSE <<>>)

\* searchAstronomyAPI(query): no request, the fallback tables only
searchAstronomyAPI(query) == Fulfilled(createFallbackResult(query))

\* a filter that drops every result when one source has none
SuccessfulAllOrNothing(settled) ==
    IF \E k \in 1..3 : settled[k].value = <<>> THEN <<>>
    ELSE settled[1].value \o settled[2].value \o settled[3].value
             \o settled[4].value

\* results.filter(r => r.status === 'fulfilled' && r.value)
\*        .map(r => r.value).flat()
Successful(settled) ==
    LET Value(r) == IF r.status = "fulfilled" THEN r.value ELSE <<>>
    IN  Value(settled[1]) \o Value(settled[2]) \o Value(settled[3])
            \o Value(settled[4])

(***************************************************************************)
(* Construction: the DOMContentLoaded listener runs new StarMap(...).      *)
(* rnd are the values drawn from Math.random(), width is the width of the  *)
(* canvas container.                                                       *)
(***************************************************************************)
DOMContentLoaded(rnd, width) ==
    /\ starMap = Undefined
    /\ starMap' = "StarMap"
    /\ Call("constructor", <<width>>)
    /\ zoom' = R(1)
    /\ panX' = R(0)
    /\ panY' = R(0)
    /\ showConstellations' = TRUE
    /\ isDragging' = FALSE
    /\ lastMouseX' = 0
    /\ lastMouseY' = 0
    /\ stars' = generateStarCatalog(rnd)
    /\ plottedObjects' = <<>>
    /\ constellations' = generateConstellationLines(stars')
    /\ canvasWidth' = width - 40
    /\ canvasHeight' = 600
    /\ cursor' = cursor
    /\ render

(***************************************************************************)
(* Event listeners (setupCanvas, setupEventListeners).                     *)
(***************************************************************************)
\* a listener that draws before it takes the new size
resizeStale(width) ==
    /\ Constructed
    /\ Call("resize", <<width>>)
    /\ canvasWidth' = width - 40
    /\ canvasHeight' = 600
    /\ UNCHANGED <<starMap, zoom, panX, panY, showConstellations, isDragging,
                   lastMouseX, lastMouseY, stars, plottedObjects,
                   constellations, cursor>>
    /\ frame' = Viewport
    /\ renders' = 1

resize(width) ==
    /\ Constructed
    /\ Call("resize", <<width>>)
    /\ canvasWidth' = width - 40
    /\ canvasHeight' = 600
    /\ UNCHANGED <<starMap, zoom, panX, panY, showConstellations, isDragging,
                   lastMouseX, lastMouseY, stars, plottedObjects,
                   constellations, cursor>>
    /\ render

mousedown(offsetX, offsetY) ==
    /\ Constructed
    /\ Call("mousedown", <<offsetX, offsetY>>)
    /\ isDragging' = TRUE
    /\ lastMouseX' = offsetX
    /\ lastMouseY' = offsetY
    /\ cursor' = "grabbing"
    /\ UNCHANGED <<starMap, zoom, panX, panY, showConstellations, stars,
                   plottedObjects, constellations, canvasWidth, canvasHeight>>
    /\ NoRender

\* a mousemove listener without the test of isDragging
mousemoveAlways(offsetX, offsetY) ==
    /\ Constructed
    /\ Call("mousemove", <<offsetX, offsetY>>)
    /\ panX' = RAdd(panX, R(offsetX - lastMouseX))
    /\ panY' = RAdd(panY, R(offsetY - lastMouseY))
    /\ lastMouseX' = offsetX
    /\ lastMouseY' = offsetY
    /\ UNCHANGED <<starMap, zoom, showConstellations, isDragging, stars,
                   plottedObjects, constellations, canvasWidth, canvasHeight,
                   cursor>>
    /\ render

mousemove(offsetX, offsetY) ==
    /\ Constructed
    /\ Call("mousemove", <<offsetX, offsetY>>)
    /\ IF isDragging
       THEN LET dx == offsetX - lastMouseX
                dy == offsetY - lastMouseY
            IN  /\ panX' = RAdd(panX, R(dx))
                /\ panY' = RAdd(panY, R(dy))
                /\ lastMouseX' = offsetX
                /\ lastMouseY' = offsetY
       ELSE UNCHANGED <<panX, panY, lastMouseX, lastMouseY>>
    /\ UNCHANGED <<starMap, zoom, showConstellations, isDragging, stars,
                   plottedObjects, constellations, canvasWidth, canvasHeight,
                   cursor>>
    \* this.render() is the last statement of the if (this.isDragging) block
    /\ IF isDragging THEN render ELSE NoRender

mouseup ==
    /\ Constructed
    /\ Call("mouseup", <<>>)
    /\ isDragging' = FALSE
    /\ cursor' = "grab"
    /\ UNCHANGED <<starMap, zoom, panX, panY, showConstellations, lastMouseX,
                   lastMouseY, stars, plottedObjects, constellations,
                   canvasWidth, canvasHeight>>
    /\ NoRender

\* a mouseleave listener that does not end the drag
mouseleaveKeepsDrag ==
    /\ Constructed
    /\ Call("mouseleave", <<>>)
    /\ cursor' = "grab"
    /\ UNCHANGED <<starMap, zoom, panX, panY, showConstellations, isDragging,
                   lastMouseX, lastMouseY, stars, plottedObjects,
                   constellations, canvasWidth, canvasHeight>>
    /\ NoRender

mouseleave ==
    /\ Constructed
    /\ Call("mouseleave", <<>>)
    /\ isDragging' = FALSE
    /\ cursor' = "grab"
    /\ UNCHANGED <<starMap, zoom, panX, panY, showConstellations, lastMouseX,
                   lastMouseY, stars, plottedObjects, constellations,
                   canvasWidth, canvasHeight>>
    /\ NoRender

\* the two factors exchanged
zoomFactorSwapped(deltaY) == IF deltaY > 0 THEN Rat(11, 10) ELSE Rat(9, 10)

\* const zoomFactor = e.deltaY > 0 ? 0.9 : 1.1
zoomFactor(deltaY) == IF deltaY > 0 THEN Rat(9, 10) ELSE Rat(11, 10)

\* the clamp without Math.min(5, ...)
ClampNoUpper(z) == RMax(Rat(1, 2), z)

\* Math.max(0.5, Math.min(5, z))
Clamp(z) == RMax(Rat(1, 2), RMin(R(5), z))

\* a wheel handler that zooms about the centre of the canvas by scaling the
\* pan with the zoom
wheelScalesPan(deltaY) ==
    /\ Constructed
    /\ Call("wheel", <<deltaY>>)
    /\ zoom' = Clamp(RMul(zoom, zoomFactor(deltaY)))
    /\ panX' = RMul(panX, zoomFactor(deltaY))
    /\ panY' = RMul(panY, zoomFactor(deltaY))
    /\ UNCHANGED <<starMap, showConstellations, isDragging,
                   lastMouseX, lastMouseY, stars, plottedObjects,
                   constellations, canvasWidth, canvasHeight, cursor>>
    /\ render

wheel(deltaY) ==
    /\ Constructed
    /\ Call("wheel", <<deltaY>>)
    /\ zoom' = Clamp(RMul(zoom, zoomFactor(deltaY)))
    /\ UNCHANGED <<starMap, panX, panY, showConstellations, isDragging,
                   lastMouseX, lastMouseY, stars, plottedObjects,
                   constellations, canvasWidth, canvasHeight, cursor>>
    /\ render

\* a click listener without its this.render()
zoomInBtnNoRender ==
    /\ Constructed
    /\ Call("zoomInBtn", <<>>)
    /\ zoom' = RMin(R(5), RMul(zoom, Rat(6, 5)))
    /\ UNCHANGED <<starMap, panX, panY, showConstellations, isDragging,
                   lastMouseX, lastMouseY, stars, plottedObjects,
                   constellations, canvasWidth, canvasHeight, cursor>>
    /\ NoRender

zoomInBtn ==
    /\ Constructed
    /\ Call("zoomInBtn", <<>>)
    /\ zoom' = RMin(R(5), RMul(zoom, Rat(6, 5)))
    /\ UNCHANGED <<starMap, panX, panY, showConstellations, isDragging,
                   lastMouseX, lastMouseY, stars, plottedObjects,
                   constellations, canvasWidth, canvasHeight, cursor>>
    /\ render

zoomOutBtn ==
    /\ Constructed
    /\ Call("zoomOutBtn", <<>>)
    /\ zoom' = RMax(Rat(1, 2), RDiv(zoom, Rat(6, 5)))
    /\ UNCHANGED <<starMap, panX, panY, showConstellations, isDragging,
                   lastMouseX, lastMouseY, stars, plottedObjects,
                   constellations, canvasWidth, canvasHeight, cursor>>
    /\ render

(***************************************************************************)
(* Public operations of StarMap.                                           *)
(***************************************************************************)
\* a plot that leaves the zoom of a fresh view
FocusZoomOne == R(1)

\* this.zoom = 2
FocusZoom == R(2)

\* a filter that removes nothing
WithoutNameKeepsAll(objs, name) == objs

\* this.plottedObjects.filter(obj => obj.name !== name)
WithoutName(objs, name) ==
    LET Other(obj) == obj.name # name IN Filter(objs, Other)

\* a plot that also pushes the object into the catalog
plotObjectIntoCatalog(name, ra, dec, type) ==
    /\ Constructed
    /\ Call("plotObject", <<name, ra, dec, type>>)
    /\ plottedObjects' =
           Append(WithoutName(plottedObjects, name),
                  [name |-> name, ra |-> ra, dec |-> dec, type |-> type])
    /\ stars' = Append(stars, [name |-> name, ra |-> ra, dec |-> dec, mag |-> 0])
    /\ LET pos == raDecToCanvas(ra, dec)
       IN  /\ panX' = RAdd(RNeg(pos.x), Rat(canvasWidth, 2))
           /\ panY' = RAdd(RNeg(pos.y), Rat(canvasHeight, 2))
    /\ zoom' = FocusZoom
    /\ UNCHANGED <<starMap, showConstellations, isDragging, lastMouseX,
                   lastMouseY, constellations, canvasWidth,
                   canvasHeight, cursor>>
    /\ render

plotObject(name, ra, dec, type) ==
    /\ Constructed
    /\ Call("plotObject", <<name, ra, dec, type>>)
    /\ plottedObjects' =
           Append(WithoutName(plottedObjects, name),
                  [name |-> name, ra |-> ra, dec |-> dec, type |-> type])
    /\ LET pos == raDecToCanvas(ra, dec)
       IN  /\ panX' = RAdd(RNeg(pos.x), Rat(canvasWidth, 2))
           /\ panY' = RAdd(RNeg(pos.y), Rat(canvasHeight, 2))
    /\ zoom' = FocusZoom
    /\ UNCHANGED <<starMap, showConstellations, isDragging, lastMouseX,
                   lastMouseY, stars, constellations, canvasWidth,
                   canvasHeight, cursor>>
    /\ render

\* a clear that also goes back to the home view
clearPlottedObjectsResets ==
    /\ Constructed
    /\ Call("clearPlottedObjects", <<>>)
    /\ plottedObjects' = <<>>
    /\ zoom' = R(1)
    /\ panX' = R(0)
    /\ panY' = R(0)
    /\ UNCHANGED <<starMap, showConstellations, isDragging,
                   lastMouseX, lastMouseY, stars, constellations, canvasWidth,
                   canvasHeight, cursor>>
    /\ render

clearPlottedObjects ==
    /\ Constructed
    /\ Call("clearPlottedObjects", <<>>)
    /\ plottedObjects' = <<>>
    /\ UNCHANGED <<starMap, zoom, panX, panY, showConstellations, isDragging,
                   lastMouseX, lastMouseY, stars, constellations, canvasWidth,
                   canvasHeight, cursor>>
    /\ render

\* a reset that also empties the list of plotted objects
resetViewClears ==
    /\ Constructed
    /\ Call("resetView", <<>>)
    /\ zoom' = R(1)
    /\ panX' = R(0)
    /\ panY' = R(0)
    /\ plottedObjects' = <<>>
    /\ UNCHANGED <<starMap, showConstellations, isDragging, lastMouseX,
                   lastMouseY, stars, constellations,
                   canvasWidth, canvasHeight, cursor>>
    /\ render

resetView ==
    /\ Constructed
    /\ Call("resetView", <<>>)
    /\ zoom' = R(1)
    /\ panX' = R(0)
    /\ panY' = R(0)
    /\ UNCHANGED <<starMap, showConstellations, isDragging, lastMouseX,
                   lastMouseY, stars, plottedObjects, constellations,
                   canvasWidth, canvasHeight, cursor>>
    /\ render

\* a toggle that always switches the lines off
toggleConstellationsOff ==
    /\ Constructed
    /\ Call("toggleConstellations", <<>>)
    /\ showConstellations' = FALSE
    /\ UNCHANGED <<starMap, zoom, panX, panY, isDragging, lastMouseX,
                   lastMouseY, stars, plottedObjects, constellations,
                   canvasWidth, canvasHeight, cursor>>
    /\ render

toggleConstellations ==
    /\ Constructed
    /\ Call("toggleConstellations", <<>>)
    /\ showConstellations' = ~showConstellations
    /\ UNCHANGED <<starMap, zoom, panX, panY, isDragging, lastMouseX,
                   lastMouseY, stars, plottedObjects, constellations,
                   canvasWidth, canvasHeight, cursor>>
    /\ render

\* a render pass that ends the drag in progress
renderOnlyEndsDrag ==
    /\ Constructed
    /\ Call("render", <<>>)
    /\ isDragging' = FALSE
    /\ UNCHANGED <<starMap, zoom, panX, panY, showConstellations,
                   lastMouseX, lastMouseY, stars, plottedObjects,
                   constellations, canvasWidth, canvasHeight, cursor>>
    /\ render

\* render() called on its own
renderOnly ==
    /\ Constructed
    /\ Call("render", <<>>)
    /\ UNCHANGED <<starMap, zoom, panX, panY, showConstellations, isDragging,
                   lastMouseX, lastMouseY, stars, plottedObjects,
                   constellations, canvasWidth, canvasHeight, cursor>>
    /\ render

(***************************************************************************)
(* The search page: performSearch and the hand-over of its results to the  *)
(* map.  An async function runs to its first await in the step of its      *)
(* caller; what follows the await is a step of its own.                    *)
(***************************************************************************)
\* the coordinates the loop of plotObjectsOnStarMap settles on for one
\* result, <<>> when ra or dec stays undefined.  No source returns details
\* with 'Right Ascension' or 'RA' and no coordinates, so that the branch
\* that parses details assigns nothing.
ResolvedCoordinates(result, query) ==
    LET own == result.coordinates
        missing == own = <<>> \/ own[1] = 0 \/ own[2] = 0   \* !ra || !dec
        lowerName == toLowerCase(result.name)
    IN  IF ~missing THEN own
        ELSE IF IsKnownStar(lowerName) THEN KnownStar(lowerName)
        ELSE IF IsKnownStar(toLowerCase(query))
        THEN KnownStar(toLowerCase(query))
        ELSE own

\* a hand-over that gives up when the map is missing
plotObjectsOnStarMapNoRetry(results, query, pending) ==
    /\ timers' = pending
    /\ nextTimer' = nextTimer
    /\ UNCHANGED viewFields
    /\ NoRender

\* plotObjectsOnStarMap(results, query), called with the timers in pending
plotObjectsOnStarMap(results, query, pending) ==
    IF windowStarMap = Undefined
    THEN \* setTimeout(() => plotObjectsOnStarMap(results, query), 500)
         /\ timers' = Append(pending, [results |-> results, query |-> query])
         /\ nextTimer' = (nextTimer % TimerCycle) + 1
         /\ UNCHANGED viewFields
         /\ NoRender
    ELSE LET hits == {k \in 1..Len(results) :
                         ResolvedCoordinates(results[k], query) # <<>>}
         IN  /\ timers' = pending
             /\ nextTimer' = nextTimer
             /\ IF hits = {}
                THEN \* clearPlottedObjects() alone
                     /\ plottedObjects' = <<>>
                     /\ UNCHANGED <<zoom, panX, panY>>
                     /\ renders' = 1
                ELSE \* clearPlottedObjects(), then plotObject and break
                     LET k == CHOOSE k \in hits : \A j \in hits : k <= j
                         c == ResolvedCoordinates(results[k], query)
                         pos == raDecToCanvas(c[1], c[2])
                     IN  /\ plottedObjects' =
                                <<[name |-> results[k].name, ra |-> c[1],
                                   dec |-> c[2], type |-> results[k].type]>>
                         /\ panX' = RAdd(RNeg(pos.x), Rat(canvasWidth, 2))
                         /\ panY' = RAdd(RNeg(pos.y), Rat(canvasHeight, 2))
                         /\ zoom' = FocusZoom
                         /\ renders' = 2
             /\ UNCHANGED <<starMap, showConstellations, isDragging,
                            lastMouseX, lastMouseY, stars, constellations,
                            canvasWidth, canvasHeight, cursor>>
             /\ frame' = Viewport'

\* the cards displayResults appends for a search; search is the number of
\* the search that made the card, kept to tell the cards apart
Cards(results, search) ==
    [k \in 1..Len(results) |->
        [kind |-> "card", name |-> results[k].name,
         source |-> results[k].source, search |-> search]]

\* the element showNoResults appends
NoResults(query, search) ==
    [kind |-> "no-results", name |-> query, source |-> "", search |-> search]

\* the second DOMContentLoaded listener: it attaches performSearch to the
\* search button, to the Enter key and to the example buttons
attachSearchListeners ==
    /\ ~searchListening
    /\ searchListening' = TRUE
    /\ UNCHANGED <<windowStarMap, timers, nextTimer, inFlight, submitted,
                   errorText, errorHidden, loadingHidden, resultsContainer>>

\* DOMContentLoaded in a page without #starMapCanvas: the constructor
\* throws at this.canvas.getContext, so that starMap stays undefined
DOMContentLoadedNoCanvas ==
    /\ starMap = Undefined
    /\ Call("constructor", <<"TypeError">>)
    /\ UNCHANGED viewFields
    /\ NoRender

\* performSearch() up to its await; input is the value of #searchInput
performSearch(input) ==
    LET query == trim(input)
    IN  /\ searchListening
        /\ Call("performSearch", <<input>>)
        /\ IF query = <<>>
           THEN \* showError(...); return
                /\ errorText' = "Please enter a space object name to search."
                /\ errorHidden' = FALSE
                /\ UNCHANGED <<loadingHidden, resultsContainer, inFlight,
                               submitted>>
           ELSE \* hideError(); showLoading(); clearResults(); four requests
                /\ errorHidden' = TRUE
                /\ errorText' = errorText
                /\ loadingHidden' = FALSE
                /\ resultsContainer' = <<>>
                /\ submitted' = submitted + 1
                /\ inFlight' = inFlight \cup
                                   {[id |-> submitted + 1, query |-> query]}
        /\ UNCHANGED <<viewFields, windowStarMap, searchListening, timers,
                       nextTimer>>
        /\ NoRender

\* await Promise.allSettled([...]): the four settled promises
Settled(query, outcomes) ==
    <<searchSBDB(query, outcomes[1]),
      searchNeoWs(query, outcomes[2]),
      searchExoplanet(query, outcomes[3]),
      searchAstronomyAPI(query)>>

\* the results performSearch displays and hands to the map:
\* successfulResults, or the fallback result when there are none; <<>>
\* when it shows the no-results message instead
Shown(query, outcomes) ==
    LET successfulResults == Successful(Settled(query, outcomes))
        fallbackResult == createFallbackResult(query)
    IN  IF successfulResults = <<>> THEN fallbackResult
        ELSE successfulResults

\* performSearch() after its await: the four promises of search have
\* settled, the remote ones with outcomes (SBDB, NeoWs, Exoplanet).  The
\* try block throws nothing, so that its catch never runs.
performSearchSettled(search, outcomes) ==
    LET query == search.query
        shown == Shown(query, outcomes)
    IN  /\ search \in inFlight
        /\ inFlight' = inFlight \ {search}
        /\ Call("performSearch.then", <<search.id, query, outcomes>>)
        /\ loadingHidden' = TRUE
        /\ IF shown = <<>>
           THEN \* showNoResults(query)
                /\ resultsContainer' =
                       Append(resultsContainer, NoResults(query, search.id))
                /\ UNCHANGED <<viewFields, timers, nextTimer>>
                /\ NoRender
           ELSE \* displayResults(...); plotObjectsOnStarMap(..., query)
                /\ resultsContainer' =
                       resultsContainer \o Cards(shown, search.id)
                /\ plotObjectsOnStarMap(shown, query, timers)
        /\ UNCHANGED <<errorText, errorHidden, submitted, windowStarMap,
                       searchListening>>

\* the callback of the oldest pending timer: timers of equal delay fire in
\* the order in which they were set
retry ==
    /\ timers # <<>>
    /\ Call("setTimeout callback", <<Head(timers).query>>)
    /\ plotObjectsOnStarMap(Head(timers).results, Head(timers).query,
                            Tail(timers))
    /\ UNCHANGED <<inFlight, submitted, errorText, errorHidden,
                   loadingHidden, resultsContainer, windowStarMap,
                   searchListening>>

(***************************************************************************)
(* Inputs of the exploration.                                              *)
(***************************************************************************)
\* Math.random() values in hundredths.  The draws 28, 28, 28 place a
\* background star at RA 6.72h, Dec -39.6 with magnitude 1.48: brighter than
\* 2.0 and 23 degrees from Sirius.  A draw of 50 gives RA 12h, Dec 0 or
\* magnitude 2.25.
CatalogDraws == {28, 50}
ViewDraws == {28}

\* widths of the canvas container in pixels
ContainerWidths == {1040, 540}

\* pointer positions (offsetX, offsetY)
Pointers == {<<0, 0>>, <<30, 40>>}

\* wheel deltas: one tick down, one tick up
WheelDeltas == {100, -100}

Vega == <<"V", "e", "g", "a">>
M31 == <<"M", "3", "1">>
ObjectNames == {Vega, M31}

\* sky positions <<ra, dec>>: RA 12h on the equator, RA 18h at Dec +60,
\* and the celestial pole
Equator12h == <<1200, 0>>
West18h == <<1800, 6000>>
Pole == <<1200, 9000>>

\* the objects that are plotted: <<ra, dec>> and type
Objects == {<<Equator12h, "Star">>, <<West18h, "Galaxy">>}

\* the zoom factors that are explored
ZoomBound == Den(zoom) <= MaxZoomDen

\* one more input event of a bounded session
Tick ==
    /\ events < MaxEvents
    /\ events' = events + 1
    /\ UNCHANGED <<before, gesture, pageVars>>

(***************************************************************************)
(* Spec: the whole view machine, every handler with varied inputs, over    *)
(* sessions of at most MaxEvents input events.                             *)
(***************************************************************************)
Load ==
    \E rnd \in [1..(3 * NumBackground) -> ViewDraws], w \in ContainerWidths :
        DOMContentLoaded(rnd, w) /\ UNCHANGED aside

Resize == Tick /\ \E w \in ContainerWidths : resize(w)

MouseDown == Tick /\ \E p \in Pointers : mousedown(p[1], p[2])

MouseMove == Tick /\ \E p \in Pointers : mousemove(p[1], p[2])

MouseUp == Tick /\ mouseup

MouseLeave == Tick /\ mouseleave

Wheel == Tick /\ \E d \in WheelDeltas : wheel(d) /\ ZoomBound'

ZoomIn == Tick /\ zoomInBtn /\ ZoomBound'

ZoomOut == Tick /\ zoomOutBtn /\ ZoomBound'

PlotObject ==
    \E n \in ObjectNames, o \in Objects :
        Tick /\ plotObject(n, o[1][1], o[1][2], o[2])

ClearPlottedObjects == Tick /\ clearPlottedObjects

ResetView == Tick /\ resetView

ToggleConstellations == Tick /\ toggleConstellations

Render == Tick /\ renderOnly

Next ==
    \/ Load
    \/ Resize
    \/ MouseDown
    \/ MouseMove
    \/ MouseUp
    \/ MouseLeave
    \/ Wheel
    \/ ZoomIn
    \/ ZoomOut
    \/ PlotObject
    \/ ClearPlottedObjects
    \/ ResetView
    \/ ToggleConstellations
    \/ Render

Spec == Init /\ [][Next]_vars

(***************************************************************************)
(* ZoomSpec: every handler again, in sessions of any length, with inputs   *)
(* that keep the pan at the origin (one pointer position, objects plotted  *)
(* at the celestial pole), so that the zoom factor runs through every      *)
(* value with a denominator up to MaxZoomDen and reaches both clamps.      *)
(***************************************************************************)
ZLoad ==
    \E rnd \in [1..(3 * NumBackground) -> ViewDraws] :
        DOMContentLoaded(rnd, 1040) /\ UNCHANGED aside

ZResize == resize(1040) /\ UNCHANGED aside

ZMouseDown == mousedown(30, 40) /\ UNCHANGED aside

ZMouseMove == mousemove(30, 40) /\ UNCHANGED aside

ZMouseUp == mouseup /\ UNCHANGED aside

ZMouseLeave == mouseleave /\ UNCHANGED aside

ZWheel == \E d \in WheelDeltas : wheel(d) /\ ZoomBound' /\ UNCHANGED aside

ZZoomIn == zoomInBtn /\ ZoomBound' /\ UNCHANGED aside

ZZoomOut == zoomOutBtn /\ ZoomBound' /\ UNCHANGED aside

ZPlotObject == plotObject(Vega, Pole[1], Pole[2], "Star") /\ UNCHANGED aside

ZClearPlottedObjects == clearPlottedObjects /\ UNCHANGED aside

ZResetView == resetView /\ UNCHANGED aside

ZToggleConstellations == toggleConstellations /\ UNCHANGED aside

ZRender == renderOnly /\ UNCHANGED aside

ZoomNext ==
    \/ ZLoad
    \/ ZResize
    \/ ZMouseDown
    \/ ZMouseMove
    \/ ZMouseUp
    \/ ZMouseLeave
    \/ ZWheel
    \/ ZZoomIn
    \/ ZZoomOut
    \/ ZPlotObject
    \/ ZClearPlottedObjects
    \/ ZResetView
    \/ ZToggleConstellations
    \/ ZRender

ZoomSpec == Init /\ [][ZoomNext]_vars

(***************************************************************************)
(* CatalogSpec: construction over every catalog the draws can produce.     *)
(***************************************************************************)
CLoad ==
    \E rnd \in [1..(3 * NumBackground) -> CatalogDraws], w \in ContainerWidths :
        DOMContentLoaded(rnd, w) /\ UNCHANGED aside

CatalogNext == CLoad

CatalogSpec == Init /\ [][CatalogNext]_vars

(***************************************************************************)
(* FrameSpec: every handler again, in sessions of at most MaxFrameEvents   *)
(* input events, with zoom factors of a denominator up to MaxFrameDen.     *)
(* Each input event records in before the call and the fields that it      *)
(* found, and the screen points that raDecToCanvas returned then.          *)
(***************************************************************************)
\* the fields of the instance and of its canvas
Fields ==
    [zoom |-> zoom, panX |-> panX, panY |-> panY,
     showConstellations |-> showConstellations,
     isDragging |-> isDragging,
     lastMouseX |-> lastMouseX, lastMouseY |-> lastMouseY,
     stars |-> stars, plottedObjects |-> plottedObjects,
     constellations |-> constellations,
     width |-> canvasWidth, height |-> canvasHeight, cursor |-> cursor]

\* the screen points raDecToCanvas returns in the current state for RA 12h
\* on the equator, RA 18h at Dec +60 and the celestial pole
Points ==
    [equator12h |-> raDecToCanvas(Equator12h[1], Equator12h[2]),
     west18h    |-> raDecToCanvas(West18h[1], West18h[2]),
     pole       |-> raDecToCanvas(Pole[1], Pole[2])]

FrameZoomBound == Den(zoom) <= MaxFrameDen

FTick ==
    /\ Constructed
    /\ events < MaxFrameEvents
    /\ events' = events + 1
    /\ before' = [call |-> lastCall, fields |-> Fields, points |-> Points]
    /\ UNCHANGED <<gesture, pageVars>>

FLoad ==
    \E rnd \in [1..(3 * NumBackground) -> ViewDraws], w \in ContainerWidths :
        DOMContentLoaded(rnd, w) /\ UNCHANGED aside

FResize == FTick /\ \E w \in ContainerWidths : resize(w)

FMouseDown == FTick /\ \E p \in Pointers : mousedown(p[1], p[2])

FMouseMove == FTick /\ \E p \in Pointers : mousemove(p[1], p[2])

FMouseUp == FTick /\ mouseup

FMouseLeave == FTick /\ mouseleave

FWheel == FTick /\ \E d \in WheelDeltas : wheel(d) /\ FrameZoomBound'

FZoomIn == FTick /\ zoomInBtn /\ FrameZoomBound'

FZoomOut == FTick /\ zoomOutBtn /\ FrameZoomBound'

FPlotObject ==
    \E o \in Objects : FTick /\ plotObject(Vega, o[1][1], o[1][2], o[2])

FClearPlottedObjects == FTick /\ clearPlottedObjects

FResetView == FTick /\ resetView

FToggleConstellations == FTick /\ toggleConstellations

FRender == FTick /\ renderOnly

FrameNext ==
    \/ FLoad
    \/ FResize
    \/ FMouseDown
    \/ FMouseMove
    \/ FMouseUp
    \/ FMouseLeave
    \/ FWheel
    \/ FZoomIn
    \/ FZoomOut
    \/ FPlotObject
    \/ FClearPlottedObjects
    \/ FResetView
    \/ FToggleConstellations
    \/ FRender

FrameSpec == Init /\ [][FrameNext]_vars

(***************************************************************************)
(* DragSpec: the pointer handlers and the operations that set the pan, in  *)
(* sessions of at most MaxDragEvents events.  gesture records the pan and  *)
(* the pointer position that the latest mousedown found, the position of   *)
(* the latest pointer event of that gesture, and whether the button is     *)
(* still down; an operation that sets the pan by other means forgets it.   *)
(***************************************************************************)
\* the pointer positions of the drag sessions
DragPointers == {<<0, 0>>, <<30, 40>>, <<100, 10>>}

DTick ==
    /\ Constructed
    /\ events < MaxDragEvents
    /\ events' = events + 1
    /\ UNCHANGED <<before, pageVars>>

DLoad ==
    \E rnd \in [1..(3 * NumBackground) -> ViewDraws] :
        DOMContentLoaded(rnd, 1040) /\ UNCHANGED aside

DMouseDown ==
    \E p \in DragPointers :
        /\ DTick
        /\ mousedown(p[1], p[2])
        /\ gesture' = <<[panX |-> panX, panY |-> panY, from |-> p, at |-> p,
                        moves |-> 0, down |-> TRUE]>>

DMouseMove ==
    \E p \in DragPointers :
        /\ DTick
        /\ mousemove(p[1], p[2])
        /\ gesture' = IF gesture # <<>> /\ gesture[1].down
                      THEN <<[gesture[1] EXCEPT !.at = p, !.moves = @ + 1]>>
                      ELSE gesture

DMouseUp ==
    /\ DTick
    /\ mouseup
    /\ gesture' = IF gesture # <<>>
                  THEN <<[gesture[1] EXCEPT !.down = FALSE]>> ELSE gesture

DMouseLeave ==
    /\ DTick
    /\ mouseleave
    /\ gesture' = IF gesture # <<>>
                  THEN <<[gesture[1] EXCEPT !.down = FALSE]>> ELSE gesture

DWheel ==
    \E d \in WheelDeltas :
        DTick /\ wheel(d) /\ FrameZoomBound' /\ UNCHANGED gesture

DPlotObject ==
    /\ DTick
    /\ plotObject(Vega, West18h[1], West18h[2], "Star")
    /\ gesture' = <<>>

DResetView == DTick /\ resetView /\ gesture' = <<>>

DragNext ==
    \/ DLoad
    \/ DMouseDown
    \/ DMouseMove
    \/ DMouseUp
    \/ DMouseLeave
    \/ DWheel
    \/ DPlotObject
    \/ DResetView

DragSpec == Init /\ [][DragNext]_vars

(***************************************************************************)
(* SearchSpec: the search page around the map.  DOMContentLoaded runs both *)
(* listeners: the first builds the StarMap, or throws in a page without    *)
(* the canvas, the second attaches performSearch to the controls.  At most *)
(* MaxSearches searches issue requests; their answers arrive in any order, *)
(* and a pending timer fires in the end.                                   *)
(***************************************************************************)
\* the text typed into #searchInput
SearchInputs ==
    {<<>>,
     <<" ", " ">>,
     <<" ", "v", "e", "g", "a">>,
     <<"4", "3", "3">>}

\* how SBDB, NeoWs and the Exoplanet Archive answer one search.  A source
\* answers "rejected" (the fetch throws), "notOk" (the status is not OK),
\* "none" (the answer holds no object) or "found".  None of them has the
\* object, the first has it while the others fail, or the first fails
\* while the others have it.
SourceOutcomes ==
    {<<"none", "notOk", "rejected">>,
     <<"found", "rejected", "notOk">>,
     <<"rejected", "found", "found">>}

SLoad ==
    \E rnd \in [1..(3 * NumBackground) -> ViewDraws] :
        /\ attachSearchListeners
        /\ DOMContentLoaded(rnd, 1040)
        /\ UNCHANGED <<events, before, gesture>>

SLoadNoCanvas ==
    /\ attachSearchListeners
    /\ DOMContentLoadedNoCanvas
    /\ UNCHANGED <<events, before, gesture>>

SPerformSearch ==
    \E input \in SearchInputs :
        /\ performSearch(input)
        /\ submitted' <= MaxSearches
        /\ UNCHANGED <<events, before, gesture>>

SSettled ==
    \E search \in inFlight, outcomes \in SourceOutcomes :
        /\ performSearchSettled(search, outcomes)
        /\ UNCHANGED <<events, before, gesture>>

SRetry == retry /\ UNCHANGED <<events, before, gesture>>

SearchNext ==
    \/ SLoad
    \/ SLoadNoCanvas
    \/ SPerformSearch
    \/ SSettled
    \/ SRetry

SearchSpec == Init /\ [][SearchNext]_vars /\ WF_vars(SRetry)

(***************************************************************************)
(* Properties.                                                             *)
(***************************************************************************)
CanvasCenter == [x |-> Rat(canvasWidth, 2), y |-> Rat(canvasHeight, 2)]

\* C1: once plotObject(name, ra, dec, kind) has returned, the projection of
\* (ra, dec) in the resulting viewport is the canvas center, whatever the
\* viewport was before the call.
C1_PlotCentersObject ==
    lastCall.op = "plotObject" =>
        raDecToCanvas(lastCall.args[2], lastCall.args[3]) = CanvasCenter

\* C2: in every reachable state the zoom factor lies in [0.5, 5].
C2_ZoomWithinLimits ==
    Constructed => /\ Den(zoom) > 0
                   /\ 2 * Num(zoom) >= Den(zoom)
                   /\ Num(zoom) <= 5 * Den(zoom)

\* the upper limit is met: a wheel tick up has left the zoom at exactly 5
C2_Witness ==
    Constructed /\ lastCall.op = "wheel" /\ lastCall.args[1] < 0 /\ zoom = R(5)

AtHome == Constructed /\ zoom = R(1) /\ panX = R(0) /\ panY = R(0)

\* C3, as stated: at zoom 1 and pan (0, 0) the star at RA 12h, Dec 0 is
\* projected onto the canvas center in both coordinates.
C3_HomeProjectionIsCenter ==
    AtHome => raDecToCanvas(1200, 0) = CanvasCenter

\* C3, amended: at zoom 1 and pan (0, 0) the star at RA 12h, Dec 0 is
\* projected onto x = canvasWidth / 2 and y = canvasHeight / 2 minus
\* 0.4 * canvasWidth.
C3_HomeProjection ==
    AtHome => raDecToCanvas(1200, 0) =
                  [x |-> Rat(canvasWidth, 2),
                   y |-> Rat(5 * canvasHeight - 4 * canvasWidth, 10)]

\* the view is back at zoom 1, pan (0, 0) after it had been moved by a plot
C3_Witness ==
    AtHome /\ lastCall.op = "resetView" /\ plottedObjects # <<>>

NamesOf(objs) == {objs[i].name : i \in 1..Len(objs)}

EntriesOf(objs) == {objs[i] : i \in 1..Len(objs)}

\* C4: the plotted-object list never holds two entries of one name; a
\* plotObject call leaves, as the last entry, the one with the name,
\* coordinates and kind of the call, and keeps the entries of other names
\* (in their order).
C4_OneEntryPerName ==
    [][/\ Constructed' => Cardinality(NamesOf(plottedObjects')) = Len(plottedObjects')
       /\ lastCall'.op = "plotObject" =>
            LET a == lastCall'.args
                n == Len(plottedObjects')
                kept == SubSeq(plottedObjects', 1, n - 1)
            IN  /\ n >= 1
                /\ plottedObjects'[n] =
                       [name |-> a[1], ra |-> a[2], dec |-> a[3], type |-> a[4]]
                /\ EntriesOf(kept) =
                       {o \in EntriesOf(plottedObjects) : o.name # a[1]}
                /\ \A i, j \in 1..Len(plottedObjects) :
                       (i < j /\ plottedObjects[i].name # a[1]
                              /\ plottedObjects[j].name # a[1])
                       => \E k, l \in 1..(n - 1) :
                              /\ k < l
                              /\ kept[k] = plottedObjects[i]
                              /\ kept[l] = plottedObjects[j]
       /\ lastCall'.op = "clearPlottedObjects" => plottedObjects' = <<>>]_vars

\* Vega was plotted at RA 12h, Dec 0 and then again at RA 18h, Dec +60 as a
\* galaxy: the pan (-400, -400) on the 1000 pixel canvas is reached in two
\* events only by these two calls
C4_Witness ==
    /\ Constructed
    /\ events = 2
    /\ canvasWidth = 1000
    /\ panX = R(-400) /\ panY = R(-400)
    /\ plottedObjects =
           <<[name |-> Vega, ra |-> 1800, dec |-> 6000, type |-> "Galaxy"]>>

\* C5: immediately after every plotObject call the zoom factor is 2.
C5_PlotSetsZoomTwo == lastCall.op = "plotObject" => zoom = R(2)

\* an object was plotted at RA 18h, Dec +60 while the zoom was 1.1: the
\* pan is -0.2 * 1000 * 1.1
C5_Witness ==
    /\ lastCall.op = "plotObject"
    /\ zoom = R(2)
    /\ canvasWidth = 1000
    /\ panX = R(-220) /\ panY = R(0)

\* C6: the interaction state is Idle after construction, Dragging after a
\* pointer-down (which records the pointer position), Idle after a
\* pointer-up or pointer-leave, and no other event changes it.
C6_DragStateMachine ==
    [][/\ lastCall'.op = "constructor" => isDragging' = FALSE
       /\ lastCall'.op = "mousedown" =>
            /\ isDragging' = TRUE
            /\ lastMouseX' = lastCall'.args[1]
            /\ lastMouseY' = lastCall'.args[2]
       /\ lastCall'.op \in {"mouseup", "mouseleave"} => isDragging' = FALSE
       /\ lastCall'.op \in {"mousemove", "wheel", "zoomInBtn", "zoomOutBtn",
                            "plotObject", "clearPlottedObjects", "resetView",
                            "toggleConstellations", "resize", "render"}
            => isDragging' = isDragging]_vars

\* the pointer went down at (30, 40) and has left the canvas
C6_Witness ==
    /\ lastCall.op = "mouseleave"
    /\ isDragging = FALSE
    /\ lastMouseX = 30 /\ lastMouseY = 40

\* C7: a pointer-move while Dragging adds (offsetX - lastMouseX,
\* offsetY - lastMouseY) to the pan, unclamped; a pointer-move while Idle
\* changes no field and triggers no render.
C7_MoveOnlyPansWhileDragging ==
    [][lastCall'.op = "mousemove" =>
         IF isDragging
         THEN /\ Den(panX) * Num(panX') =
                   Den(panX') * (Num(panX)
                       + Den(panX) * (lastCall'.args[1] - lastMouseX))
              /\ Den(panY) * Num(panY') =
                   Den(panY') * (Num(panY)
                       + Den(panY) * (lastCall'.args[2] - lastMouseY))
         ELSE /\ UNCHANGED <<starMap, zoom, panX, panY, showConstellations,
                             isDragging, lastMouseX, lastMouseY, stars,
                             plottedObjects, constellations, canvasWidth,
                             canvasHeight, cursor, frame>>
              /\ renders' = 0]_vars

\* a drag from (0, 0) to (30, 40) has moved the pan by (30, 40)
C7_Witness ==
    /\ lastCall.op = "mousemove"
    /\ isDragging = TRUE
    /\ panX = R(30) /\ panY = R(40)

\* the product z clamped to [0.5, 5]
Clamped(z) ==
    IF 2 * Num(z) < Den(z) THEN Rat(1, 2)
    ELSE IF Num(z) > 5 * Den(z) THEN R(5)
    ELSE z

\* C8: a wheel event multiplies the zoom by 0.9 for a down tick
\* (deltaY > 0) and by 1.1 for an up tick, and clamps the product to
\* [0.5, 5]; at zoom 5 an up tick leaves 5, at zoom 0.5 a down tick
\* leaves 0.5.
C8_WheelZoom ==
    [][lastCall'.op = "wheel" =>
         LET down == lastCall'.args[1] > 0
         IN  /\ down =>
                  zoom' = Clamped(Rat(9 * Num(zoom), 10 * Den(zoom)))
             /\ ~down =>
                  zoom' = Clamped(Rat(11 * Num(zoom), 10 * Den(zoom)))
             /\ (~down /\ zoom = R(5)) => zoom' = R(5)
             /\ (down /\ zoom = Rat(1, 2)) => zoom' = Rat(1, 2)]_vars

\* a wheel tick up has been clamped to 5
C8_Witness ==
    /\ Constructed
    /\ lastCall.op = "wheel" /\ lastCall.args[1] < 0
    /\ zoom = R(5)
    /\ plottedObjects # <<>>

Synthetic(s) == StartsWith(s.name, StarPrefix)

\* C9: both endpoints of every constellation edge are catalog stars with
\* magnitude < 2.0 and a name that is not synthetic.
C9_EdgesJoinNamedBrightStars ==
    Constructed =>
        \A k \in 1..Len(constellations) :
            \A s \in {constellations[k].star1, constellations[k].star2} :
                /\ \E i \in 1..Len(stars) : stars[i] = s
                /\ s.mag < 200
                /\ ~Synthetic(s)

\* a background star is brighter than magnitude 2.0 and within 30 degrees
\* of Sirius
C9_Witness ==
    /\ Constructed
    /\ \E i \in 1..Len(stars) :
           /\ Synthetic(stars[i])
           /\ stars[i].mag < 200
           /\ WithinLimit(AngularDist(stars[1], stars[i]))

\* the candidate stars, by their positions in the catalog
Candidates ==
    {i \in 1..Len(stars) : stars[i].mag < 200 /\ ~Synthetic(stars[i])}

\* the edges that join the stars a and b, in either orientation
EdgesBetween(a, b) ==
    {k \in 1..Len(constellations) :
        \/ constellations[k].star1 = a /\ constellations[k].star2 = b
        \/ constellations[k].star1 = b /\ constellations[k].star2 = a}

\* C10: for every unordered pair of distinct candidate stars there is an
\* edge iff their computed angular distance is below 30 degrees; no pair
\* has two edges and no star has an edge to itself.
C10_EdgeIffWithin30 ==
    Constructed =>
        /\ \A i, j \in Candidates :
               i < j =>
                   Cardinality(EdgesBetween(stars[i], stars[j])) =
                       IF WithinLimit(AngularDist(stars[i], stars[j]))
                       THEN 1 ELSE 0
        /\ \A k \in 1..Len(constellations) :
               constellations[k].star1 # constellations[k].star2

\* some candidate pairs are joined and some are not
C10_Witness ==
    /\ Constructed
    /\ \E i, j \in Candidates :
           i < j /\ EdgesBetween(stars[i], stars[j]) # {}
    /\ \E i, j \in Candidates :
           i < j /\ EdgesBetween(stars[i], stars[j]) = {}

\* the positions at which the visibility test is probed: far away, on and
\* next to each bound of the margin, and the canvas center
ProbeXs ==
    {R(-1000), R(-51), R(-50), Rat(-99, 2), R(0), Rat(canvasWidth, 2),
     Rat(2 * canvasWidth + 99, 2), R(canvasWidth + 50), R(canvasWidth + 51)}

ProbeYs ==
    {R(-1000), R(-51), R(-50), Rat(-99, 2), R(0), Rat(canvasHeight, 2),
     Rat(2 * canvasHeight + 99, 2), R(canvasHeight + 50), R(canvasHeight + 51)}

\* every probed x at the height of the center, every probed y below the
\* center, and the two far corners
Probes ==
    {[x |-> x, y |-> Rat(canvasHeight, 2)] : x \in ProbeXs}
        \cup {[x |-> Rat(canvasWidth, 2), y |-> y] : y \in ProbeYs}
        \cup {[x |-> R(-1000), y |-> R(-1000)],
              [x |-> R(canvasWidth + 51), y |-> R(canvasHeight + 51)]}

\* c lies strictly between the integers lo and hi
StrictlyBetween(lo, c, hi) == lo * Den(c) < Num(c) /\ Num(c) < hi * Den(c)

\* C11: isPointVisible(p) is true iff -50 < p.x < canvasWidth + 50 and
\* -50 < p.y < canvasHeight + 50; it is true for the canvas center and false
\* for (-1000, -1000), at every zoom and pan.
C11_VisibleWithinMargin ==
    Constructed =>
        /\ \A p \in Probes :
               isPointVisible(p) <=>
                   /\ StrictlyBetween(-50, p.x, canvasWidth + 50)
                   /\ StrictlyBetween(-50, p.y, canvasHeight + 50)
        /\ isPointVisible(CanvasCenter)
        /\ ~isPointVisible([x |-> R(-1000), y |-> R(-1000)])

\* away from the home view (zoom 2, pan (0, 400)) the marker of the object
\* plotted last is culled, while the canvas center is visible
C11_Witness ==
    /\ lastCall.op = "plotObject"
    /\ zoom = R(2) /\ panY = R(400)
    /\ DrawnObjects = <<>>
    /\ isPointVisible(CanvasCenter)

\* C12: resetView sets zoom = 1, panX = 0, panY = 0 from any state and leaves
\* showConstellations, the plotted objects, the catalog, the constellation
\* graph and the drag state unchanged.
C12_ResetViewFrame ==
    [][lastCall'.op = "resetView" =>
         /\ zoom' = R(1) /\ panX' = R(0) /\ panY' = R(0)
         /\ UNCHANGED <<showConstellations, plottedObjects, stars,
                        constellations, isDragging, lastMouseX,
                        lastMouseY>>]_vars

\* the view was reset during a drag, with an object plotted and the lines
\* switched off
C12_Witness ==
    /\ lastCall.op = "resetView"
    /\ AtHome
    /\ isDragging = TRUE
    /\ showConstellations = FALSE
    /\ Len(plottedObjects) = 1

\* C14: once a handler or operation that changes zoom, panX, panY,
\* showConstellations, the plotted objects or the canvas size has finished,
\* the frame rendered last is the frame of the current state.
C14_FrameIsCurrent == Constructed => frame = Viewport

\* a drag has moved the pan, and the frame shows the moved pan
C14_Witness ==
    /\ lastCall.op = "mousemove"
    /\ renders = 1
    /\ frame.panX = R(30) /\ frame.panY = R(40)
    /\ frame.plottedObjects # <<>>

\* C15: a resize event sets the canvas size from the container and then
\* renders with it; projection and visibility test read the canvas size of
\* the moment of the call.
C15_ResizeRendersCurrentSize ==
    /\ [][lastCall'.op = "resize" =>
             /\ canvasWidth' = lastCall'.args[1] - 40
             /\ canvasHeight' = 600
             /\ renders' = 1
             /\ frame'.width = canvasWidth'
             /\ frame'.height = canvasHeight']_vars
    /\ [](Constructed =>
             /\ raDecToCanvas(Pole[1], Pole[2]) =
                    [x |-> RAdd(Rat(canvasWidth, 2), panX),
                     y |-> RAdd(Rat(canvasHeight, 2), panY)]
             /\ isPointVisible([x |-> R(canvasWidth + 49), y |-> R(0)])
             /\ ~isPointVisible([x |-> R(canvasWidth + 50), y |-> R(0)]))

\* the canvas was 1000 pixels wide when the object was plotted (the pan of
\* 400 pixels is 0.4 times that width) and has been resized to 500
C15_Witness ==
    /\ lastCall.op = "resize"
    /\ events = 2
    /\ panY = R(400)
    /\ canvasWidth = 500
    /\ frame.width = 500

\* C18: the catalog and the constellation graph are built once, by the
\* constructor, and no later step changes them.
C18_CatalogImmutable ==
    [][/\ Constructed =>
            /\ Constructed'
            /\ lastCall'.op # "constructor"
            /\ stars' = stars
            /\ constellations' = constellations
       /\ ~Constructed =>
            /\ lastCall'.op = "constructor"
            /\ Len(stars') = Len(NamedStars) + NumBackground
            /\ SubSeq(stars', 1, Len(NamedStars)) = NamedStars
            /\ \A k \in 1..Len(constellations') :
                   \E i, j \in 1..Len(stars') :
                       constellations'[k] =
                           [star1 |-> stars'[i], star2 |-> stars'[j]]]_vars

\* late in a session, after a plot has moved the view, the catalog still
\* starts with the named stars and the graph still has its edges
C18_Witness ==
    /\ Constructed
    /\ events >= 3
    /\ zoom # R(1)
    /\ plottedObjects # <<>>
    /\ SubSeq(stars, 1, Len(NamedStars)) = NamedStars
    /\ constellations # <<>>

\* C20: clearPlottedObjects leaves the list of plotted objects empty from
\* any state and does not change zoom, panX, panY or showConstellations.
C20_ClearFrame ==
    [][lastCall'.op = "clearPlottedObjects" =>
         /\ plottedObjects' = <<>>
         /\ UNCHANGED <<zoom, panX, panY, showConstellations>>]_vars

\* the list was emptied after two objects had been plotted; the view is
\* still the one the last plot left
C20_Witness ==
    /\ lastCall.op = "clearPlottedObjects"
    /\ plottedObjects = <<>>
    /\ frame.plottedObjects = <<>>
    /\ zoom = R(2)
    /\ canvasWidth = 1000
    /\ panX = R(-400) /\ panY = R(-400)

\* C13: toggleConstellations negates showConstellations and changes no
\* other view field; two toggles in a row give back the fields that the
\* first one found; the flag is true after construction.
C13_ToggleInvolution ==
    [][/\ lastCall'.op = "constructor" => showConstellations' = TRUE
       /\ lastCall'.op = "toggleConstellations" =>
            /\ showConstellations' = ~showConstellations
            /\ UNCHANGED <<zoom, panX, panY, plottedObjects, isDragging,
                           lastMouseX, lastMouseY>>
       /\ (lastCall.op = "toggleConstellations"
              /\ lastCall'.op = "toggleConstellations") =>
            Fields' = before.fields]_vars

\* the lines were switched off and on again
C13_Witness ==
    /\ lastCall.op = "toggleConstellations"
    /\ before.call.op = "toggleConstellations"
    /\ before.fields.showConstellations = FALSE
    /\ showConstellations = TRUE
    /\ DrawnLines # <<>>

\* p lies inside the margin of 50 pixels around the canvas
InsideMargin(p) ==
    /\ Num(p.x) > -50 * Den(p.x)
    /\ Num(p.x) < (canvasWidth + 50) * Den(p.x)
    /\ Num(p.y) > -50 * Den(p.y)
    /\ Num(p.y) < (canvasHeight + 50) * Den(p.y)

\* the two projected end points of a constellation edge
EndPoints(line) ==
    {raDecToCanvas(line.star1.ra, line.star1.dec),
     raDecToCanvas(line.star2.ra, line.star2.dec)}

C17_RenderChangesNothing ==
    [][lastCall'.op = "render" =>
         /\ Fields' = Fields
         /\ renders' = 1
         /\ frame' = Viewport
         /\ lastCall.op = "render" => frame' = frame]_vars

\* two render passes in a row
C17_Witness ==
    /\ lastCall.op = "render"
    /\ before.call.op = "render"
    /\ renders = 1
    /\ frame = Viewport

\* the viewport and the canvas size of a record of fields
ProjectionInputs(f) == <<f.zoom, f.panX, f.panY, f.width, f.height>>

\* C19: raDecToCanvas is deterministic and read-only: called again with the
\* same (ra, dec) in the same viewport and canvas size it returns the same
\* point, whatever else has changed; the calls of a render pass change no
\* field.
C19_ProjectionDeterministic ==
    (Constructed /\ events >= 1) =>
        /\ ProjectionInputs(Fields) = ProjectionInputs(before.fields)
               => Points = before.points
        /\ lastCall.op = "render" => Fields = before.fields

\* a pointer-down at (30, 40) in a view moved by a plot: the pointer
\* position has changed, the projection of RA 18h, Dec +60 has not
C19_Witness ==
    /\ lastCall.op = "mousedown"
    /\ lastMouseX = 30
    /\ zoom = R(2)
    /\ canvasWidth = 1000
    /\ panX = R(-200)
    /\ before.fields.lastMouseX = 0
    /\ before.points.west18h = [x |-> R(700), y |-> R(300)]
    /\ Points.west18h = [x |-> R(700), y |-> R(300)]


(***************************************************************************)
(* C23: plotObject is idempotent on the viewport: a second call in a row   *)
(* with the same arguments leaves the zoom, the pan and the plotted list   *)
(* that the first call left.                                               *)
(***************************************************************************)
C23_PlotObjectIdempotent ==
    [][(lastCall.op = "plotObject" /\ lastCall' = lastCall)
          => /\ zoom' = zoom
             /\ panX' = panX
             /\ panY' = panY
             /\ plottedObjects' = plottedObjects]_vars


(***************************************************************************)
(* C22: one render pass fills the background, then strokes the             *)
(* constellation edges (if enabled), then draws the stars with their       *)
(* labels, then the markers of the plotted objects.  A star is drawn only  *)
(* if its projection is visible, and labelled only if in addition its      *)
(* magnitude is below 1.5 and its name is not synthetic.                   *)
(***************************************************************************)
\* the place of a drawing call in the order of the pass
Rank(op) ==
    CASE op = "background" -> 0
      [] op = "line"       -> 1
      [] op = "star"       -> 2
      [] op = "label"      -> 2
      [] op = "marker"     -> 3

\* the things the calls of one kind draw, in the order of the pass
Drawn(list, op) ==
    LET OfKind(d) == d.op = op
        calls == SelectSeq(list, OfKind)
    IN  [k \in 1..Len(calls) |-> calls[k].of]

VisibleStar(star) == InsideMargin(raDecToCanvas(star.ra, star.dec))

VisibleObject(obj) == InsideMargin(raDecToCanvas(obj.ra, obj.dec))

C22_DrawOrder ==
    Constructed =>
        LET list == DrawList
        IN  /\ list[1].op = "background"
            /\ \A i \in 2..Len(list) :
                   /\ list[i].op # "background"
                   /\ Rank(list[i - 1].op) <= Rank(list[i].op)
            /\ ~showConstellations => Drawn(list, "line") = <<>>
            /\ Drawn(list, "star") = SelectSeq(stars, VisibleStar)
            /\ Drawn(list, "marker") = SelectSeq(plottedObjects, VisibleObject)
            /\ \A i \in 1..Len(list) :
                   /\ list[i].op = "label" =>
                          /\ list[i - 1].op = "star"
                          /\ list[i - 1].of = list[i].of
                   /\ list[i].op = "star" =>
                          ((/\ list[i].of.mag < 150
                            /\ ~Synthetic(list[i].of))
                           <=> (/\ i < Len(list)
                                /\ list[i + 1].op = "label"))

\* a pass that draws edges, a labelled star, a bright synthetic star
\* without a label and a marker, and that culls another star
C22_Witness ==
    /\ Constructed
    /\ renders = 1
    /\ LET list == DrawList
       IN  /\ Drawn(list, "line") # <<>>
           /\ Drawn(list, "label") # <<>>
           /\ Drawn(list, "marker") # <<>>
           /\ \E i \in 1..Len(list) :
                  /\ list[i].op = "star"
                  /\ Synthetic(list[i].of)
                  /\ list[i].of.mag < 150
           /\ Len(Drawn(list, "star")) < Len(stars)


(***************************************************************************)
(* C26: over one drag gesture, from the mousedown at P0 through any moves  *)
(* to the last pointer position Pn, the pan changes by Pn - P0 whatever    *)
(* the path, as long as no other operation sets the pan in between.        *)
(***************************************************************************)
C26_DragNetPan ==
    gesture # <<>> =>
        LET g == gesture[1]
        IN  /\ panX = RAdd(g.panX, R(g.at[1] - g.from[1]))
            /\ panY = RAdd(g.panY, R(g.at[2] - g.from[2]))

\* a finished gesture of two moves that went through a third point, with
\* a move after the button was released
C26_Witness ==
    /\ gesture # <<>>
    /\ ~gesture[1].down
    /\ gesture[1].moves = 2
    /\ gesture[1].at # gesture[1].from
    /\ panX # gesture[1].panX
    /\ lastCall.op = "mousemove"
    /\ <<lastCall.args[1], lastCall.args[2]>> # gesture[1].at


(***************************************************************************)
(* Properties of the search page.                                          *)
(***************************************************************************)
\* the step that ends in the next state ran plotObjectsOnStarMap: it is the
\* continuation of a search that displayed results, or a timer callback
HandsOver ==
    \/ lastCall'.op = "setTimeout callback"
    \/ /\ lastCall'.op = "performSearch.then"
       /\ Shown(lastCall'.args[2], lastCall'.args[3]) # <<>>

\* the timers that were pending when that run began, and what it was given
PendingThen ==
    IF lastCall'.op = "setTimeout callback" THEN Tail(timers) ELSE timers

HandedResults ==
    IF lastCall'.op = "setTimeout callback" THEN Head(timers).results
    ELSE Shown(lastCall'.args[2], lastCall'.args[3])

HandedQuery ==
    IF lastCall'.op = "setTimeout callback" THEN Head(timers).query
    ELSE lastCall'.args[2]

\* C21: a run of plotObjectsOnStarMap while the view does not exist calls
\* neither clearPlottedObjects nor plotObject and changes no state of the
\* view; all it does is to schedule one retry of itself with the same
\* arguments.
C21_SafeBeforeViewExists ==
    [][(starMap = Undefined /\ HandsOver)
          => /\ UNCHANGED viewFields
             /\ frame' = frame
             /\ renders' = 0
             /\ timers' = Append(PendingThen, [results |-> HandedResults,
                                               query |-> HandedQuery])]_vars

\* a retry that ran before the view existed, with a second request pending
C21_Witness ==
    /\ starMap = Undefined
    /\ lastCall.op = "setTimeout callback"
    /\ Len(timers) = 2
    /\ timers[1].query # timers[2].query


\* C24: when plotObjectsOnStarMap was called with a result that has
\* coordinates, then once the StarMap is constructed the retry loop stops
\* in the end and plotObject is invoked, the timers firing fairly.
HasCoordinates(results) ==
    \E k \in 1..Len(results) : results[k].coordinates # <<>>

C24_RetryEndsInPlot ==
    (/\ Constructed
     /\ \E i \in 1..Len(timers) : HasCoordinates(timers[i].results))
        ~> (Constructed /\ plottedObjects # <<>>)

\* C25: when two searches overlap, then after both have completed, in
\* whatever order, the results container holds only the cards of the query
\* that was submitted last.
C25_OnlyLatestQueryShown ==
    inFlight = {} =>
        \A k \in 1..Len(resultsContainer) :
            resultsContainer[k].search = submitted

\* C27: a run of plotObjectsOnStarMap on a constructed map leaves at most
\* one plotted object: the first of its results that has coordinates, and
\* none when no result has coordinates.
FirstWithCoordinates(results) ==
    CHOOSE k \in 1..Len(results) :
        /\ results[k].coordinates # <<>>
        /\ \A j \in 1..(k - 1) : results[j].coordinates = <<>>

C27_AtMostFirstWithCoordinates ==
    [][(Constructed /\ HandsOver)
          => plottedObjects' =
                 IF ~HasCoordinates(HandedResults) THEN <<>>
                 ELSE LET r == HandedResults[
                                   FirstWithCoordinates(HandedResults)]
                      IN  <<[name |-> r.name, ra |-> r.coordinates[1],
                             dec |-> r.coordinates[2],
                             type |-> r.type]>>]_vars

\* C28: a result that carries coordinates is plotted at exactly those
\* coordinates.
C28_PlottedAtOwnCoordinates ==
    [][(Constructed /\ HandsOver /\ HasCoordinates(HandedResults))
          => LET r == HandedResults[FirstWithCoordinates(HandedResults)]
             IN  \E i \in 1..Len(plottedObjects') :
                     /\ plottedObjects'[i].name = r.name
                     /\ plottedObjects'[i].ra = r.coordinates[1]
                     /\ plottedObjects'[i].dec = r.coordinates[2]]_vars

\* C29: performSearch with an empty or whitespace-only query shows the
\* error message and returns: it does not show the loading indicator,
\* clears no results, issues no request and leaves the plotted objects and
\* the viewport alone.
Blank(text) == \A i \in 1..Len(text) : text[i] \in {" ", "\t", "\n"}

C29_BlankQueryOnlyShowsError ==
    [][(lastCall'.op = "performSearch" /\ Blank(lastCall'.args[1]))
          => /\ ~errorHidden'
             /\ errorText' = "Please enter a space object name to search."
             /\ UNCHANGED <<loadingHidden, resultsContainer, inFlight,
                            submitted, timers, viewFields, frame>>]_vars

\* a whitespace-only query, entered while a search is in flight and the
\* cards of another search are on display
C29_Witness ==
    /\ lastCall = [op |-> "performSearch", args |-> <<<<" ", " ">>>>]
    /\ ~errorHidden
    /\ loadingHidden
    /\ inFlight # {}
    /\ resultsContainer # <<>>

\* C30: the failure of a data source never puts a search into the error
\* state and never suppresses what the other sources found.  When a search
\* with a non-empty query completes, the loading indicator is hidden and
\* exactly one outcome has occurred: cards, when a source or the fallback
\* yielded a result, or else the no-results message.
SourceNames == <<"NASA SBDB", "NASA NeoWs", "NASA Exoplanet Archive">>

C30_SourceFailuresAreContained ==
    [][lastCall'.op = "performSearch.then"
          => LET id == lastCall'.args[1]
                 query == lastCall'.args[2]
                 outcomes == lastCall'.args[3]
                 old == Len(resultsContainer)
                 added == SubSeq(resultsContainer', old + 1,
                                 Len(resultsContainer'))
                 found == {k \in 1..3 : outcomes[k] = "found"}
                 fallback == createFallbackResult(query) # <<>>
                 Source(k) == added[k].source
             IN  /\ loadingHidden'
                 /\ UNCHANGED <<errorHidden, errorText>>
                 /\ SubSeq(resultsContainer', 1, old) = resultsContainer
                 /\ added # <<>>
                 /\ \A k \in 1..Len(added) : added[k].search = id
                 /\ IF found # {} \/ fallback
                    THEN /\ \A k \in 1..Len(added) : added[k].kind = "card"
                         /\ \A s \in found :
                                \E k \in 1..Len(added) :
                                    Source(k) = SourceNames[s]
                         /\ Len(added) =
                                Cardinality(found) +
                                    (IF fallback THEN 1 ELSE 0)
                    ELSE /\ Len(added) = 1
                         /\ added[1].kind = "no-results"
                         /\ added[1].name = query]_vars

\* a search that shows the card of the one source that answered, next to
\* the card of the fallback, although the two other sources failed
C30_Witness ==
    /\ lastCall.op = "performSearch.then"
    /\ lastCall.args[3] = <<"found", "rejected", "notOk">>
    /\ loadingHidden
    /\ errorHidden
    /\ Len(resultsContainer) = 2
    /\ resultsContainer[1].source = "NASA SBDB"
    /\ resultsContainer[2].source = "Star Catalog"


(***************************************************************************)
(* The loading indicator and overlapping searches.                         *)
(***************************************************************************)
\* C31: the loading indicator is visible whenever at least one search is
\* still in flight, overlapping searches included: it is hidden only when
\* no performSearch call is pending.
C31_LoadingWhilePending == inFlight # {} => ~loadingHidden

(***************************************************************************)
(* Frame effects of the zoom and drag handlers.                            *)
(***************************************************************************)
ZoomOps == {"wheel", "zoomInBtn", "zoomOutBtn"}

\* C32: wheel, zoom-in and zoom-out leave panX, panY, showConstellations,
\* the plotted objects and the drag state as they were; a mouse move leaves
\* zoom, showConstellations and the plotted objects as they were; and a
\* step of an existing view that changes both the zoom and the pan is a
\* plotObject or a resetView.
C32_ZoomAndDragFrames ==
    [][/\ lastCall'.op \in ZoomOps =>
              UNCHANGED <<panX, panY, showConstellations, plottedObjects,
                          isDragging>>
       /\ lastCall'.op = "mousemove" =>
              UNCHANGED <<zoom, showConstellations, plottedObjects>>
       /\ (Constructed /\ zoom' # zoom /\ <<panX, panY>>' # <<panX, panY>>) =>
              lastCall'.op \in {"plotObject", "resetView"}]_vars

\* a wheel turn during a drag, away from the home view, with an object
\* plotted
C32_Witness ==
    /\ Constructed
    /\ lastCall.op = "wheel"
    /\ isDragging
    /\ plottedObjects # <<>>
    /\ panX # R(0)
    /\ zoom # R(2)

====
